---- MODULE Spec2Model ----
(***************************************************************************)
(* Model of WebSocketClient (src/src/index.ts, the revision with the       *)
(* connecting guard and the message buffer, lines 206-525).                *)
(*                                                                         *)
(* One client and the sockets it creates.  Every event handler, timer      *)
(* callback and public method is one action; inside an action the code's   *)
(* statements are composed in order over a record of the client's fields.  *)
(* A caller callback may call destroy() on the client from its body; the   *)
(* callback (if any) that does so is an input of every action.            *)
(*                                                                         *)
(* Spec is the client constructed and used directly.  RegistrySpec is the  *)
(* client that createWebSocket registered under a channel id of the WS     *)
(* registry and that is used through the registry only; a client that      *)
(* replaces it there shares no state with it and appears only as the       *)
(* registry entry "other".  OptionsSpec is the arithmetic of the options:  *)
(* the constructor's merge of the defaults and the reconnect delays.       *)
(***************************************************************************)
EXTENDS Integers, Sequences, FiniteSets, TLC

\* ---------------------------------------------------------------- bounds
MaxSockets == 3      \* sockets one client may create in a run
MaxSent == 2         \* payloads written to the transport in a run
MaxQueue == 2        \* payloads buffered in messageQueue
MaxAttempts == 2     \* largest reconnectAttempts option tried
MaxNest == 3         \* call depth at which the runtime raises RangeError
MaxDelayAttempts == 4 \* largest reconnectAttempts of the numeric options

\* ------------------------------------------------------------- constants
\* WebSocket.readyState values
CONNECTING == 0
OPEN == 1
CLOSING == 2
CLOSED == 3

Null == 0            \* this.ws = null (sockets are numbered from 1)
NoConnection == -1   \* `?? -1` argument of onSendError

\* a timer handle: null, a scheduled timer, or the id of a timer that fired
TimerNames == {"heartbeatSend", "heartbeatCheck", "reconnect"}
Payloads == {"", "a"}
HeartbeatData == "hb"

\* the callback of the set in whose body the caller calls destroy()
\* ("onClosedAlways": onClosed calls destroy() on every invocation,
\*  "onClosed": it does so on the first invocation only)
Reacts == {"none", "onConnected", "onMessage", "onClosed", "onClosedAlways",
           "onError", "onSendError", "onHeartbeatTimeout", "onReconnecting",
           "onReconnectFailed"}

\* channel ids of the WS registry
ChannelIds == {1}

\* what the reacting callback calls: destroy() on the client, or
\* removeWebSocket(id) / createWebSocket(id, ...) of the registry
DirectCalls == {<<"destroy", 0>>}
RegistryCalls == {"removeWebSocket", "createWebSocket"} \X ChannelIds

NoReaction == <<"none", <<"destroy", 0>> >>

\* the caller's reactions with a callback among `names`: <<callback, call>>
Reactions(names, calls) ==
    {r \in (names \ {"none"}) \X calls : TRUE}
        \cup (IF "none" \in names THEN {NoReaction} ELSE {})

VARIABLES
    ws,              \* this.ws: Null or the number of the current socket
    sock,            \* sockets created so far: readyState, handlers attached
    reconnectCount,  \* this.reconnectCount
    isConnecting,    \* this.isConnecting
    messageQueue,    \* this.messageQueue
    timers,          \* this.timers: role -> "null" | "live" | "stale"
    leaked,          \* role -> scheduled timers no handle refers to
    cooldown,        \* pending anonymous 30 s timers of the exhausted branch
    callbacks,       \* TRUE: the caller's set, FALSE: {} (after destroy)
    options,         \* reconnectAttempts, enableMessageBuffer, getHeartbeat
    wsInstances,     \* WS.wsInstances: id -> "none" | "this" (the client) |
                     \* "other" (a client constructed later)
    sent,            \* payloads written to the transport, in order
    cbLog,           \* life-cycle callbacks the caller's set has received since
                     \* the connection last opened: <<name, argument>>
    trace,           \* callback invocations of the last action
    last,            \* the last action: operation, result, re-entrant destroy
    destroys,        \* destroy() calls between events that have returned (0, 1, 2+)
    created          \* sockets created since the last handled open event;
                     \* -1 in the specifications that do not count them

vars == <<ws, sock, reconnectCount, isConnecting, messageQueue, timers, leaked,
          cooldown, callbacks, options, wsInstances, sent, cbLog, trace, last,
          destroys, created>>

\* --------------------------------------------------- the client as a record
\* The fields of the client plus the locals of the running handler:
\* exc (exception in flight), react/via/reacted (the caller's re-entrant
\* call), depth (call depth), ret (return value), wfail (the transport's
\* send() throws during this handler).  The registry is carried along.
Fields(reaction) ==
    [ws |-> ws, sock |-> sock, reconnectCount |-> reconnectCount,
     isConnecting |-> isConnecting, messageQueue |-> messageQueue,
     timers |-> timers, leaked |-> leaked, cooldown |-> cooldown,
     callbacks |-> callbacks, options |-> options,
     wsInstances |-> wsInstances, sent |-> sent,
     trace |-> <<>>, exc |-> "none", react |-> reaction[1],
     via |-> reaction[2], reacted |-> "none",
     depth |-> 0, ret |-> "void", wfail |-> FALSE, armed |-> {}]

Ok(s) == s.exc = "none"

\* ------------------------------------------------------------------ timers
\* clearTimer(timerName)
clearTimer(s, name) ==
    IF s.timers[name] # "null"
    THEN [s EXCEPT !.timers[name] = "null"]
    ELSE s

\* clearAllTimers(): Object.keys order
clearAllTimers(s) ==
    clearTimer(clearTimer(clearTimer(s, "heartbeatSend"), "heartbeatCheck"),
               "reconnect")

\* this.timers[name] = setTimeout/setInterval(...): a handle that is
\* overwritten while its timer is scheduled leaves that timer running;
\* armed: the roles for which the handler has started a timer
setTimer(s, name) ==
    [s EXCEPT !.timers[name] = "live",
              !.armed = @ \cup {name},
              !.leaked[name] = @ + (IF s.timers[name] = "live" THEN 1 ELSE 0)]

\* ------------------------------------------------------------- connection
\* isConnected()
isConnected(s) == s.ws # Null /\ s.sock[s.ws].rs = OPEN

\* ws.close() of the transport
wsClose(s, w) == [s EXCEPT !.sock[w].rs = CLOSING]

\* ws.send(data) of the transport on the current socket: the payload is
\* written, or send() throws
wsSend(s, data) ==
    IF s.wfail THEN [s EXCEPT !.exc = "Error"]
    ELSE [s EXCEPT !.sent = Append(@, data)]

\* cleanupOldConnection(ws) that leaves the handlers attached
cleanupOldConnection_keepHandlers(s, w) ==
    IF s.sock[w].rs # CLOSED /\ s.sock[w].rs # CLOSING
    THEN wsClose(s, w)
    ELSE s

\* cleanupOldConnection(ws)
cleanupOldConnection(s, w) ==
    LET s1 == [s EXCEPT !.sock[w].att = FALSE]
    IN IF s1.sock[w].rs # CLOSED /\ s1.sock[w].rs # CLOSING
       THEN wsClose(s1, w)
       ELSE s1

\* cleanupConnection() that leaves the timers scheduled
cleanupConnection_keepTimers(s) ==
    IF s.ws # Null THEN cleanupOldConnection(s, s.ws) ELSE s

\* cleanupConnection()
cleanupConnection(s) ==
    LET s1 == clearAllTimers(s)
    IN IF s1.ws # Null THEN cleanupOldConnection(s1, s1.ws) ELSE s1

\* -------------------------------------------------- callbacks and destroy()
RECURSIVE Invoke(_, _, _), destroy(_), removeWebSocket(_, _),
          createWebSocket(_, _)

\* the call the reacting callback makes
React(s) ==
    CASE s.via[1] = "destroy" -> destroy(s)
      [] s.via[1] = "removeWebSocket" -> removeWebSocket(s, s.via[2])
      [] s.via[1] = "createWebSocket" -> createWebSocket(s, s.via[2])

\* Does the caller's callback `name` react in this invocation?
Reacting(s, name) ==
    \/ s.react = name /\ s.reacted = "none"
    \/ s.react = "onClosedAlways" /\ name = "onClosed"

\* this.callbacks.name?.(arg): nothing when the slot is absent, else the
\* caller's body, which may call destroy() on the client, directly or
\* through the registry
Invoke(s, name, arg) ==
    IF ~Ok(s) \/ ~s.callbacks THEN s
    ELSE LET s1 == [s EXCEPT !.trace = Append(@, <<name, arg>>)]
         IN IF Reacting(s1, name)
            THEN LET s2 == React([s1 EXCEPT !.reacted = name,
                                            !.depth = @ + 1])
                 IN [s2 EXCEPT !.depth = s1.depth]
            ELSE s1

\* destroy() that keeps the caller's callback set
destroy_keepCallbacks(s) ==
    IF ~Ok(s) THEN s
    ELSE IF s.depth > MaxNest THEN [s EXCEPT !.exc = "RangeError"]
    ELSE LET s1 == [s EXCEPT !.isConnecting = FALSE]
             s2 == cleanupConnection(s1)
             s3 == Invoke(s2, "onClosed", "null")
         IN IF ~Ok(s3) THEN s3
            ELSE [s3 EXCEPT !.ws = Null]

\* destroy() that also resets the reconnect counter
destroy_resetCount(s) ==
    IF ~Ok(s) THEN s
    ELSE IF s.depth > MaxNest THEN [s EXCEPT !.exc = "RangeError"]
    ELSE LET s1 == [s EXCEPT !.isConnecting = FALSE, !.reconnectCount = 0]
             s2 == cleanupConnection(s1)
             s3 == Invoke(s2, "onClosed", "null")
         IN IF ~Ok(s3) THEN s3
            ELSE [s3 EXCEPT !.ws = Null, !.callbacks = FALSE]

\* destroy()
destroy(s) ==
    IF ~Ok(s) THEN s
    ELSE IF s.depth > MaxNest THEN [s EXCEPT !.exc = "RangeError"]
    ELSE LET s1 == [s EXCEPT !.isConnecting = FALSE]
             s2 == cleanupConnection(s1)
             s3 == Invoke(s2, "onClosed", "null")
         IN IF ~Ok(s3) THEN s3
            ELSE [s3 EXCEPT !.ws = Null, !.callbacks = FALSE]

\* ---------------------------------------------------------------- registry
\* WS.createWebSocket(channelId, options, callbacks): the client registered
\* afterwards is a new one
createWebSocket(s, id) ==
    LET s1 == IF s.wsInstances[id] = "this" THEN destroy(s) ELSE s
    IN IF ~Ok(s1) THEN s1 ELSE [s1 EXCEPT !.wsInstances[id] = "other"]

\* WS.removeWebSocket(channelId) that leaves the entry in the map
removeWebSocket_keepEntry(s, id) ==
    IF s.wsInstances[id] = "this" THEN destroy(s) ELSE s

\* WS.removeWebSocket(channelId)
removeWebSocket(s, id) ==
    IF s.wsInstances[id] = "none" THEN s
    ELSE LET s1 == IF s.wsInstances[id] = "this" THEN destroy(s) ELSE s
         IN IF ~Ok(s1) THEN s1 ELSE [s1 EXCEPT !.wsInstances[id] = "none"]

\* ------------------------------------------------------- reconnect logic
\* handleConnectionError() that allows one attempt too many (<= for <)
handleConnectionError_offByOne(s) ==
    IF ~Ok(s) THEN s
    ELSE IF s.reconnectCount <= s.options.reconnectAttempts
    THEN LET s1 == [s EXCEPT !.reconnectCount = @ + 1]
             s2 == Invoke(s1, "onReconnecting",
                          s1.options.reconnectAttempts - s1.reconnectCount)
         IN IF ~Ok(s2) THEN s2
            ELSE setTimer(clearTimer(s2, "reconnect"), "reconnect")
    ELSE LET s1 == Invoke(s, "onReconnectFailed", "null")
         IN IF ~Ok(s1) THEN s1
            ELSE [s1 EXCEPT !.ws = Null, !.cooldown = @ + 1]

\* handleConnectionError()
handleConnectionError(s) ==
    IF ~Ok(s) THEN s
    ELSE IF s.reconnectCount < s.options.reconnectAttempts
    THEN LET s1 == [s EXCEPT !.reconnectCount = @ + 1]
             s2 == Invoke(s1, "onReconnecting",
                          s1.options.reconnectAttempts - s1.reconnectCount)
         IN IF ~Ok(s2) THEN s2
            ELSE setTimer(clearTimer(s2, "reconnect"), "reconnect")
    ELSE LET s1 == Invoke(s, "onReconnectFailed", "null")
         IN IF ~Ok(s1) THEN s1
            ELSE [s1 EXCEPT !.ws = Null, !.cooldown = @ + 1]

\* setupEventListeners(): the four handlers are attached to this.ws
setupEventListeners(s) ==
    IF s.ws = Null THEN s ELSE [s EXCEPT !.sock[s.ws].att = TRUE]

\* connect() that drops the old socket without cleaning it up
connect_dropOld(s, throws) ==
    IF s.isConnecting THEN s
    ELSE LET s1 == [s EXCEPT !.isConnecting = TRUE]
             s3 == [clearAllTimers(s1) EXCEPT !.ws = Null]
         IN IF throws
            THEN handleConnectionError([s3 EXCEPT !.isConnecting = FALSE])
            ELSE LET new == [rs |-> CONNECTING, att |-> FALSE]
                     s4 == [s3 EXCEPT !.sock = Append(@, new),
                                      !.ws = Len(s3.sock) + 1]
                 IN setupEventListeners(s4)

\* connect(); throws: the transport's constructor throws
connect(s, throws) ==
    IF s.isConnecting THEN s
    ELSE LET s1 == [s EXCEPT !.isConnecting = TRUE]
             s2 == clearAllTimers(s1)
             s3 == IF s2.ws # Null
                   THEN cleanupOldConnection([s2 EXCEPT !.ws = Null], s2.ws)
                   ELSE s2
         IN IF throws
            THEN handleConnectionError([s3 EXCEPT !.isConnecting = FALSE])
            ELSE LET new == [rs |-> CONNECTING, att |-> FALSE]
                     s4 == [s3 EXCEPT !.sock = Append(@, new),
                                      !.ws = Len(s3.sock) + 1]
                 IN setupEventListeners(s4)

\* --------------------------------------------------------------- heartbeat
\* this.callbacks.getHeartbeat is supplied
hasGetHeartbeat(s) == s.callbacks /\ s.options.getHeartbeat

\* startHeartbeat()
startHeartbeat(s) ==
    IF ~hasGetHeartbeat(s) THEN s
    ELSE setTimer(clearTimer(s, "heartbeatSend"), "heartbeatSend")

\* resetHeartbeat() that does not cancel the pending check timer
resetHeartbeat_noClear(s) ==
    IF ~hasGetHeartbeat(s) THEN s
    ELSE setTimer(s, "heartbeatCheck")

\* resetHeartbeat()
resetHeartbeat(s) ==
    IF ~hasGetHeartbeat(s) THEN s
    ELSE setTimer(clearTimer(s, "heartbeatCheck"), "heartbeatCheck")

\* a sendHeartbeat(data) that also restarts the heartbeat-check timer
sendHeartbeat_rearms(s, data) ==
    IF isConnected(s) THEN resetHeartbeat(wsSend(s, data)) ELSE s

\* sendHeartbeat(data)
sendHeartbeat(s, data) ==
    IF isConnected(s) THEN wsSend(s, data) ELSE s

\* an interval callback that asks the producer before looking at the
\* connection
heartbeatSendTick_alwaysProduce(s) ==
    IF hasGetHeartbeat(s)
    THEN sendHeartbeat([s EXCEPT !.trace = Append(@, <<"getHeartbeat",
                                                       "void">>)],
                       HeartbeatData)
    ELSE s

\* the setInterval callback of startHeartbeat
heartbeatSendTick(s) ==
    IF isConnected(s)
    THEN IF hasGetHeartbeat(s)
         THEN sendHeartbeat([s EXCEPT !.trace = Append(@, <<"getHeartbeat",
                                                            "void">>)],
                            HeartbeatData)
         ELSE [s EXCEPT !.exc = "TypeError"]
    ELSE s

\* handleTimeoutAndReconnect() that does not tear the connection down
handleTimeoutAndReconnect_noCleanup(s) ==
    LET s1 == Invoke(s, "onHeartbeatTimeout", "null")
        s3 == Invoke(s1, "onClosed", "null")
    IN handleConnectionError(s3)

\* handleTimeoutAndReconnect(this.callbacks.onHeartbeatTimeout)
handleTimeoutAndReconnect(s) ==
    LET s1 == Invoke(s, "onHeartbeatTimeout", "null")
        s2 == IF Ok(s1) THEN cleanupConnection(s1) ELSE s1
        s3 == Invoke(s2, "onClosed", "null")
    IN handleConnectionError(s3)

\* ------------------------------------------------------------ send / flush
\* JavaScript truthiness of a payload (`if (message)`)
Truthy(m) == m # ""

\* flushMessageQueue()
RECURSIVE flushMessageQueue(_)
flushMessageQueue(s) ==
    IF Ok(s) /\ Len(s.messageQueue) > 0 /\ isConnected(s)
    THEN LET message == Head(s.messageQueue)
             s1 == [s EXCEPT !.messageQueue = Tail(@)]
         IN flushMessageQueue(IF Truthy(message) THEN wsSend(s1, message)
                               ELSE s1)
    ELSE s

\* send(data) that reports CLOSED when there is no connection
send_noFallback(s, data) ==
    IF ~isConnected(s)
    THEN LET s1 == IF s.options.enableMessageBuffer
                   THEN [s EXCEPT !.messageQueue = Append(@, data)]
                   ELSE s
             s2 == Invoke(s1, "onSendError",
                          IF s1.ws # Null THEN s1.sock[s1.ws].rs
                          ELSE CLOSED)
         IN IF Ok(s2) THEN [s2 EXCEPT !.ret = "false"] ELSE s2
    ELSE LET s1 == wsSend(s, data)
         IN IF Ok(s1) THEN [s1 EXCEPT !.ret = "true"] ELSE s1

\* send(data) that queues the payload whatever enableMessageBuffer says
send_alwaysBuffers(s, data) ==
    IF ~isConnected(s)
    THEN LET s1 == [s EXCEPT !.messageQueue = Append(@, data)]
             s2 == Invoke(s1, "onSendError",
                          IF s1.ws # Null THEN s1.sock[s1.ws].rs
                          ELSE NoConnection)
         IN IF Ok(s2) THEN [s2 EXCEPT !.ret = "false"] ELSE s2
    ELSE LET s1 == wsSend(s, data)
         IN IF Ok(s1) THEN [s1 EXCEPT !.ret = "true"] ELSE s1

\* send(data)
send(s, data) ==
    IF ~isConnected(s)
    THEN LET s1 == IF s.options.enableMessageBuffer
                   THEN [s EXCEPT !.messageQueue = Append(@, data)]
                   ELSE s
             s2 == Invoke(s1, "onSendError",
                          IF s1.ws # Null THEN s1.sock[s1.ws].rs
                          ELSE NoConnection)
         IN IF Ok(s2) THEN [s2 EXCEPT !.ret = "false"] ELSE s2
    ELSE LET s1 == wsSend(s, data)
         IN IF Ok(s1) THEN [s1 EXCEPT !.ret = "true"] ELSE s1

\* WS.sendWebSocketMessage(channelId, data)
sendWebSocketMessage(s, id, data) ==
    IF s.wsInstances[id] = "this" THEN send(s, data)
    ELSE [s EXCEPT !.ret = "false"]

\* WS.getWebSocketInstance(channelId): this.ws of the client ("socket") or
\* null
getWebSocketInstance(s, id) ==
    IF s.wsInstances[id] = "this" /\ s.ws # Null
    THEN [s EXCEPT !.ret = "socket"]
    ELSE [s EXCEPT !.ret = "null"]

\* ------------------------------------------------------- socket handlers
\* ws.onopen that keeps the reconnect counter
onopen_keepCount(s) ==
    LET s1 == [s EXCEPT !.isConnecting = FALSE]
        s2 == IF s1.options.enableMessageBuffer
              THEN flushMessageQueue(s1) ELSE s1
        s3 == IF Ok(s2) THEN resetHeartbeat(startHeartbeat(s2)) ELSE s2
    IN Invoke(s3, "onConnected", "null")

\* ws.onopen that starts the heartbeat timers before it flushes the queue
onopen_heartbeatFirst(s) ==
    LET s1 == [s EXCEPT !.isConnecting = FALSE, !.reconnectCount = 0]
        s2 == resetHeartbeat(startHeartbeat(s1))
        s3 == IF s2.options.enableMessageBuffer
              THEN flushMessageQueue(s2) ELSE s2
    IN Invoke(s3, "onConnected", "null")

\* ws.onopen
onopen(s) ==
    LET s1 == [s EXCEPT !.isConnecting = FALSE, !.reconnectCount = 0]
        s2 == IF s1.options.enableMessageBuffer
              THEN flushMessageQueue(s1) ELSE s1
        s3 == IF Ok(s2) THEN resetHeartbeat(startHeartbeat(s2)) ELSE s2
    IN Invoke(s3, "onConnected", "null")

\* ws.onmessage that leaves the heartbeat-check timer alone
onmessage_noReset(s, data) == Invoke(s, "onMessage", data)

\* ws.onmessage
onmessage(s, data) == Invoke(resetHeartbeat(s), "onMessage", data)

\* ws.onclose that invokes onClosed on every close
onclose_alwaysClosed(s) ==
    LET s1 == clearAllTimers([s EXCEPT !.isConnecting = FALSE])
        s2 == Invoke(s1, "onClosed", "null")
    IN IF ~Ok(s2) THEN s2
       ELSE IF s2.timers["reconnect"] = "null"
       THEN handleConnectionError(s2)
       ELSE s2

\* ws.onclose that leaves the timers scheduled
onclose_keepTimers(s) ==
    LET s1 == [s EXCEPT !.isConnecting = FALSE]
        s2 == IF s1.reconnectCount = 0
              THEN Invoke(s1, "onClosed", "null") ELSE s1
    IN IF ~Ok(s2) THEN s2
       ELSE IF s2.timers["reconnect"] = "null"
       THEN handleConnectionError(s2)
       ELSE s2

\* ws.onclose that leaves isConnecting as it is
onclose_keepConnecting(s) ==
    LET s1 == clearAllTimers(s)
        s2 == IF s1.reconnectCount = 0
              THEN Invoke(s1, "onClosed", "null") ELSE s1
    IN IF ~Ok(s2) THEN s2
       ELSE IF s2.timers["reconnect"] = "null"
       THEN handleConnectionError(s2)
       ELSE s2

\* ws.onclose
onclose(s) ==
    LET s1 == clearAllTimers([s EXCEPT !.isConnecting = FALSE])
        s2 == IF s1.reconnectCount = 0
              THEN Invoke(s1, "onClosed", "null") ELSE s1
    IN IF ~Ok(s2) THEN s2
       ELSE IF s2.timers["reconnect"] = "null"
       THEN handleConnectionError(s2)
       ELSE s2

\* ws.onerror that also enters the reconnect path
onerror_reconnects(s) == handleConnectionError(Invoke(s, "onError", "error"))

\* ws.onerror
onerror(s) == Invoke(s, "onError", "error")

\* ------------------------------------------------------------ constructor
\* the fields of a client before the constructor runs
NewClient(opts) ==
    [ws |-> Null, sock |-> <<>>, reconnectCount |-> 0, isConnecting |-> FALSE,
     messageQueue |-> <<>>, timers |-> [n \in TimerNames |-> "null"],
     leaked |-> [n \in TimerNames |-> 0], cooldown |-> 0, callbacks |-> TRUE,
     options |-> opts, wsInstances |-> [c \in ChannelIds |-> "none"],
     sent |-> <<>>, trace |-> <<>>, exc |-> "none",
     react |-> "none", via |-> <<"destroy", 0>>, reacted |-> "none",
     depth |-> 0, ret |-> "void", wfail |-> FALSE, armed |-> {}]

\* the option sets tried: reconnectAttempts, enableMessageBuffer, and
\* whether callbacks.getHeartbeat is supplied
OptionSets ==
    [reconnectAttempts : 0..MaxAttempts, enableMessageBuffer : BOOLEAN,
     getHeartbeat : BOOLEAN]

\* constructor(options, callbacks)
Construct(opts, throws) == connect(NewClient(opts), throws)

\* WS.createWebSocket(id, options, callbacks) on the empty registry
Register(id, opts, throws) ==
    [Construct(opts, throws) EXCEPT !.wsInstances[id] = "this"]

\* the callbacks cbLog keeps: those that report the connection's life cycle
Logged == {"onConnected", "onClosed", "onHeartbeatTimeout", "onReconnecting",
           "onReconnectFailed"}

IsLogged(e) == e[1] \in Logged

\* what an action records about itself
Did(op, handled, r) ==
    [op |-> op, handled |-> handled, ret |-> r.ret,
     exc |-> r.exc, reacted |-> r.reacted, armed |-> r.armed]

\* the state after the constructor; counting: the sockets of each episode
\* are counted
InitCounting(r, throws, counting) ==
    /\ ws = r.ws
    /\ sock = r.sock
    /\ reconnectCount = r.reconnectCount
    /\ isConnecting = r.isConnecting
    /\ messageQueue = r.messageQueue
    /\ timers = r.timers
    /\ leaked = r.leaked
    /\ cooldown = r.cooldown
    /\ callbacks = r.callbacks
    /\ options = r.options
    /\ wsInstances = r.wsInstances
    /\ sent = r.sent
    /\ cbLog = SelectSeq(r.trace, IsLogged)
    /\ trace = r.trace
    /\ last = Did("new", ~throws, r)
    /\ destroys = 0
    /\ created = IF counting THEN Len(r.sock) ELSE -1

InitWith(r, throws) == InitCounting(r, throws, FALSE)

\* new WebSocketClient(options, callbacks): nothing is registered
Init ==
    \E opts \in OptionSets, throws \in BOOLEAN :
        InitWith(Construct(opts, throws), throws)

\* createWebSocket(id, options, callbacks) on the empty registry
InitRegistry ==
    \E id \in ChannelIds, opts \in OptionSets, throws \in BOOLEAN :
        InitWith(Register(id, opts, throws), throws)

\* The fields after a handler has run become the next state.  An error
\* thrown by the transport's send() goes to the caller or to the event loop
\* and the program goes on; a run ends at any other exception that no
\* handler catches.
Commit(r, op, handled) ==
    /\ last.exc \in {"none", "Error"}
    /\ ws' = r.ws
    /\ sock' = r.sock
    /\ reconnectCount' = r.reconnectCount
    /\ isConnecting' = r.isConnecting
    /\ messageQueue' = r.messageQueue
    /\ timers' = r.timers
    /\ leaked' = r.leaked
    /\ cooldown' = r.cooldown
    /\ callbacks' = r.callbacks
    /\ options' = r.options
    /\ wsInstances' = r.wsInstances
    /\ sent' = r.sent
    /\ cbLog' = IF ~r.callbacks \/ (op = "open" /\ handled) THEN <<>>
                ELSE cbLog \o SelectSeq(r.trace, IsLogged)
    /\ trace' = r.trace
    /\ last' = Did(op, handled, r)
    /\ destroys' = IF op = "destroy" /\ Ok(r) /\ destroys < 2
                   THEN destroys + 1 ELSE destroys
    /\ created' = IF created < 0 THEN created
                  ELSE IF op = "open" /\ handled THEN 0
                  ELSE created + Len(r.sock) - Len(sock)

\* a handler of socket i runs only while it is attached
Dispatch(s, i, handler) == IF s.sock[i].att THEN handler ELSE s

\* ---------------------------------------------------------------- actions
\* Each action takes as input the callback in whose body the caller calls
\* destroy(), among the callbacks the handler can invoke.

\* the transport opens socket i; fails: the transport's send() throws
SocketOpen(i, d, fails) ==
    /\ sock[i].rs = CONNECTING
    /\ LET s == [Fields(d) EXCEPT !.sock[i].rs = OPEN, !.wfail = fails]
       IN Commit(Dispatch(s, i, onopen(s)), "open", sock[i].att)

\* the transport delivers a message on socket i
SocketMessage(i, data, d) ==
    /\ sock[i].rs = OPEN
    /\ LET s == Fields(d)
       IN Commit(Dispatch(s, i, onmessage(s, data)), "message", sock[i].att)

\* the transport reports an error on socket i
SocketError(i, d) ==
    /\ sock[i].rs # CLOSED
    /\ LET s == Fields(d)
       IN Commit(Dispatch(s, i, onerror(s)), "error", sock[i].att)

\* the transport starts the closing handshake of socket i (the peer's close
\* frame has arrived): readyState is CLOSING, no event is dispatched yet
SocketClosing(i) ==
    /\ sock[i].rs = OPEN
    /\ LET s == [Fields(NoReaction) EXCEPT !.sock[i].rs = CLOSING]
       IN Commit(s, "closing", FALSE)

\* the transport closes socket i
SocketClose(i, d) ==
    /\ sock[i].rs # CLOSED
    /\ LET s == [Fields(d) EXCEPT !.sock[i].rs = CLOSED]
       IN Commit(Dispatch(s, i, onclose(s)), "close", sock[i].att)

\* a scheduled timer of the role expires: the one the handle refers to,
\* or one that no handle refers to any more
Expire(s, name, repeats) ==
    IF s.timers[name] = "live"
    THEN IF repeats THEN s ELSE [s EXCEPT !.timers[name] = "stale"]
    ELSE [s EXCEPT !.leaked[name] = @ - 1]

Scheduled(name) == timers[name] = "live" \/ leaked[name] > 0

\* the reconnect timer expires: connect()
ReconnectTimer(throws, d) ==
    /\ Scheduled("reconnect")
    /\ Len(sock) < MaxSockets
    /\ LET s == Expire(Fields(d), "reconnect", FALSE)
       IN Commit(connect(s, throws), "reconnectTimer", ~throws)

\* the heartbeat-check timer expires
HeartbeatCheckTimer(d) ==
    /\ Scheduled("heartbeatCheck")
    /\ LET s == Expire(Fields(d), "heartbeatCheck", FALSE)
       IN Commit(handleTimeoutAndReconnect(s), "heartbeatCheckTimer", TRUE)

\* the heartbeat-send interval ticks; fails: the transport's send() throws
HeartbeatSendTimer(fails) ==
    /\ Len(sent) < MaxSent
    /\ Scheduled("heartbeatSend")
    /\ LET s == Expire([Fields(NoReaction) EXCEPT !.wfail = fails],
                       "heartbeatSend", TRUE)
       IN Commit(heartbeatSendTick(s), "heartbeatSendTimer", TRUE)

\* the 30 s timer of the exhausted branch expires
CooldownTimer ==
    /\ cooldown > 0
    /\ LET s == Fields(NoReaction)
       IN Commit([s EXCEPT !.cooldown = @ - 1, !.reconnectCount = 0],
                 "cooldownTimer", TRUE)

\* the caller calls send(data); fails: the transport's send() throws
Send(data, d, fails) ==
    /\ Len(sent) < MaxSent
    /\ Len(messageQueue) < MaxQueue
    /\ Commit(send([Fields(d) EXCEPT !.wfail = fails], data), "send", TRUE)

\* the caller calls destroy() between events
Destroy(d) == Commit(destroy(Fields(d)), "destroy", TRUE)

\* the caller calls createWebSocket(id, ...) between events
CreateWebSocket(id, d) ==
    Commit(createWebSocket(Fields(d), id), "createWebSocket", TRUE)

\* the caller calls removeWebSocket(id) between events
RemoveWebSocket(id, d) ==
    Commit(removeWebSocket(Fields(d), id), "removeWebSocket", TRUE)

\* the caller calls sendWebSocketMessage(id, data); a call that another
\* client serves is a step of that client
SendWebSocketMessage(id, data, d, fails) ==
    /\ wsInstances[id] # "other"
    /\ Len(sent) < MaxSent
    /\ Len(messageQueue) < MaxQueue
    /\ Commit(sendWebSocketMessage([Fields(d) EXCEPT !.wfail = fails], id, data),
              "sendWebSocketMessage", TRUE)

\* the caller calls getWebSocketInstance(id)
GetWebSocketInstance(id) ==
    /\ wsInstances[id] # "other"
    /\ Commit(getWebSocketInstance(Fields(NoReaction), id),
              "getWebSocketInstance", TRUE)

OnFailure == {"onReconnecting", "onReconnectFailed"}
OnClosed == {"onClosed", "onClosedAlways"}

Next ==
    \/ \E i \in 1..Len(sock), d \in Reactions({"none", "onConnected"}, DirectCalls), fails \in BOOLEAN :
           SocketOpen(i, d, fails)
    \/ \E i \in 1..Len(sock), data \in Payloads, d \in Reactions({"none", "onMessage"}, DirectCalls) :
           SocketMessage(i, data, d)
    \/ \E i \in 1..Len(sock), d \in Reactions({"none", "onError"}, DirectCalls) : SocketError(i, d)
    \/ \E i \in 1..Len(sock), d \in Reactions({"none"} \cup OnClosed \cup OnFailure, DirectCalls) :
           SocketClose(i, d)
    \/ \E i \in 1..Len(sock) : SocketClosing(i)
    \/ \E throws \in BOOLEAN, d \in Reactions({"none"} \cup OnFailure, DirectCalls) :
           ReconnectTimer(throws, d)
    \/ \E d \in Reactions({"none", "onHeartbeatTimeout"} \cup OnClosed \cup OnFailure, DirectCalls) :
           HeartbeatCheckTimer(d)
    \/ \E fails \in BOOLEAN : HeartbeatSendTimer(fails)
    \/ CooldownTimer
    \/ \E data \in Payloads, d \in Reactions({"none", "onSendError"}, DirectCalls), fails \in BOOLEAN :
           Send(data, d, fails)
    \/ \E d \in Reactions({"none"} \cup OnClosed, DirectCalls) : Destroy(d)

Spec == Init /\ [][Next]_vars

\* the same client, with the sockets of each episode counted: the
\* constructor's connect() has created one unless the transport threw
InitEpisode ==
    \E opts \in OptionSets, throws \in BOOLEAN :
        InitCounting(Construct(opts, throws), throws, TRUE)

EpisodeSpec == InitEpisode /\ [][Next]_vars

\* the client is used through the registry only
NextRegistry ==
    \/ \E i \in 1..Len(sock), d \in Reactions({"none", "onConnected"}, RegistryCalls), fails \in BOOLEAN :
           SocketOpen(i, d, fails)
    \/ \E i \in 1..Len(sock), data \in Payloads, d \in Reactions({"none", "onMessage"}, RegistryCalls) :
           SocketMessage(i, data, d)
    \/ \E i \in 1..Len(sock), d \in Reactions({"none", "onError"}, RegistryCalls) : SocketError(i, d)
    \/ \E i \in 1..Len(sock), d \in Reactions({"none"} \cup OnClosed \cup OnFailure, RegistryCalls) :
           SocketClose(i, d)
    \/ \E i \in 1..Len(sock) : SocketClosing(i)
    \/ \E throws \in BOOLEAN, d \in Reactions({"none"} \cup OnFailure, RegistryCalls) :
           ReconnectTimer(throws, d)
    \/ \E d \in Reactions({"none", "onHeartbeatTimeout"} \cup OnClosed \cup OnFailure, RegistryCalls) :
           HeartbeatCheckTimer(d)
    \/ \E fails \in BOOLEAN : HeartbeatSendTimer(fails)
    \/ CooldownTimer
    \/ \E id \in ChannelIds, d \in Reactions({"none"} \cup OnClosed, RegistryCalls) :
           CreateWebSocket(id, d) \/ RemoveWebSocket(id, d)
    \/ \E id \in ChannelIds, data \in Payloads,
          d \in Reactions({"none", "onSendError"}, RegistryCalls), fails \in BOOLEAN :
           SendWebSocketMessage(id, data, d, fails)
    \/ \E id \in ChannelIds : GetWebSocketInstance(id)

RegistrySpec == InitRegistry /\ [][NextRegistry]_vars

\* What the event loop guarantees: a scheduled timer expires and the
\* transport delivers the events of a socket.  Calls of send() and destroy()
\* are the caller's choice.
EventOrTimer ==
    \/ \E i \in 1..Len(sock), d \in Reactions(Reacts, DirectCalls) :
           SocketError(i, d) \/ SocketClose(i, d)
    \/ \E i \in 1..Len(sock) : SocketClosing(i)
    \/ \E i \in 1..Len(sock), d \in Reactions(Reacts, DirectCalls), fails \in BOOLEAN :
           SocketOpen(i, d, fails)
    \/ \E i \in 1..Len(sock), data \in Payloads, d \in Reactions(Reacts, DirectCalls) :
           SocketMessage(i, data, d)
    \/ \E throws \in BOOLEAN, d \in Reactions(Reacts, DirectCalls) : ReconnectTimer(throws, d)
    \/ \E d \in Reactions(Reacts, DirectCalls) : HeartbeatCheckTimer(d)
    \/ \E fails \in BOOLEAN : HeartbeatSendTimer(fails)
    \/ CooldownTimer

FairSpec == Spec /\ WF_vars(EventOrTimer)

\* ------------------------------------------------------- numeric options
\* the numeric options and the values tried for each (ms; randomTime in s)
OptionKeys == {"reconnectAttempts", "reconnectInterval", "heartbeatInterval",
               "heartbeatTimeout", "randomTime"}

OptionValues ==
    [reconnectAttempts |-> {MaxDelayAttempts},
     reconnectInterval |-> {1000, 20000, 40000},
     heartbeatInterval |-> {1000, 10000, 15000},
     heartbeatTimeout |-> {1000, 10000, 15000},
     randomTime |-> {0, 1}]

\* the options object the caller passes: any subset of the keys
GivenOptions ==
    UNION {{g \in [K -> UNION {OptionValues[k] : k \in OptionKeys}] :
                \A k \in K : g[k] \in OptionValues[k]} : K \in SUBSET OptionKeys}

\* the defaults of the constructor
Defaults ==
    [reconnectAttempts |-> 3, reconnectInterval |-> 5000,
     heartbeatInterval |-> 10000, heartbeatTimeout |-> 15000,
     randomTime |-> 2]

\* { ...defaults, ...options }
mergeDefaults(given) ==
    [k \in OptionKeys |-> IF k \in DOMAIN given THEN given[k] ELSE Defaults[k]]

\* the constructor's options without the check of the heartbeat times
mergeOptions_noWiden(given) == mergeDefaults(given)

\* the constructor's options: the merge, then heartbeatTimeout + 3000 when
\* it equals heartbeatInterval
mergeOptions(given) ==
    LET o == mergeDefaults(given)
    IN IF o.heartbeatInterval = o.heartbeatTimeout
       THEN [o EXCEPT !.heartbeatTimeout = @ + 3000]
       ELSE o

RECURSIVE Pow(_, _)
Pow(b, e) == IF e = 0 THEN 1 ELSE b * Pow(b, e - 1)

\* delays are fractions of a millisecond count: num / den, den > 0
Frac(num, den) == [num |-> num, den |-> den]
Leq(a, b) == a.num * b.den <= b.num * a.den
Eq(a, b) == a.num * b.den = b.num * a.den
Plus(a, ms) == Frac(a.num + ms * a.den, a.den)

MaxBackoff == 30000

\* backoffDelay without the 30 s cap
backoffDelay_noCap(baseDelay, n) == Frac(baseDelay * Pow(3, n - 1), Pow(2, n - 1))

\* Math.min(baseDelay * Math.pow(1.5, n - 1), 30000), 1.5^k being 3^k / 2^k
backoffDelay(baseDelay, n) ==
    LET d == Frac(baseDelay * Pow(3, n - 1), Pow(2, n - 1))
    IN IF Leq(d, Frac(MaxBackoff, 1)) THEN d ELSE Frac(MaxBackoff, 1)

\* values of Math.random() * randomTime * 1000 tried: the ends of
\* [0, randomTime * 1000) and one value inside
RandomDelays(randomTime) ==
    {0} \cup {r \in {1, randomTime * 1000 - 1} : 0 < r /\ r < randomTime * 1000}

\* the caller's options object, before the constructor runs
InitOptions ==
    \E given \in GivenOptions :
        LET r == NewClient(given)
        IN /\ ws = r.ws
           /\ sock = r.sock
           /\ reconnectCount = r.reconnectCount
           /\ isConnecting = r.isConnecting
           /\ messageQueue = r.messageQueue
           /\ timers = r.timers
           /\ leaked = r.leaked
           /\ cooldown = r.cooldown
           /\ callbacks = r.callbacks
           /\ options = given
           /\ wsInstances = r.wsInstances
           /\ sent = r.sent
           /\ cbLog = <<>>
           /\ trace = <<>>
           /\ last = [op |-> "options"]
           /\ destroys = 0 /\ created = -1

OptionsUnchanged ==
    UNCHANGED <<ws, sock, isConnecting, messageQueue, timers, leaked, cooldown,
                callbacks, wsInstances, sent, cbLog, trace, destroys,
                created>>

\* the constructor sets this.options
MergeOptions ==
    /\ last.op = "options"
    /\ options' = mergeOptions(options)
    /\ last' = [op |-> "merged", given |-> options]
    /\ UNCHANGED reconnectCount
    /\ OptionsUnchanged

\* handleConnectionError() with budget left computes the delay of the
\* reconnect timer
ReconnectDelay ==
    /\ last.op \in {"merged", "delay"}
    /\ reconnectCount < options.reconnectAttempts
    /\ reconnectCount' = reconnectCount + 1
    /\ \E randomDelay \in RandomDelays(options.randomTime) :
           LET baseDelay == options.reconnectInterval
               backoff == backoffDelay(baseDelay, reconnectCount')
           IN last' = [op |-> "delay", backoffDelay |-> backoff,
                       totalDelay |-> Plus(backoff, randomDelay)]
    /\ UNCHANGED options
    /\ OptionsUnchanged

NextOptions == MergeOptions \/ ReconnectDelay

OptionsSpec == InitOptions /\ [][NextOptions]_vars

\* ------------------------------------------- the revision of part_002
\* The WebSocketClient of src/unnamed/part_002: the same fields without the
\* message queue; its timers, isConnected() and callback invocation are
\* those above.  Its handlers:

\* connect()
connect_part002(s, throws) ==
    IF s.isConnecting THEN s
    ELSE LET s1 == clearAllTimers([s EXCEPT !.isConnecting = TRUE])
             s2 == IF s1.ws # Null
                   THEN LET w == s1.ws
                            d == [s1 EXCEPT !.sock[w].att = FALSE]
                            c == IF d.sock[w].rs # CLOSED
                                    /\ d.sock[w].rs # CLOSING
                                 THEN wsClose(d, w) ELSE d
                        IN [c EXCEPT !.ws = Null]
                   ELSE s1
         IN IF throws
            THEN [s2 EXCEPT !.isConnecting = FALSE]
            ELSE LET new == [rs |-> CONNECTING, att |-> TRUE]
                 IN [s2 EXCEPT !.sock = Append(@, new),
                               !.ws = Len(s2.sock) + 1]

\* cleanupConnection()
cleanupConnection_part002(s) ==
    LET s1 == clearAllTimers(s)
    IN IF s1.ws = Null THEN s1
       ELSE LET w == s1.ws
                d == [s1 EXCEPT !.sock[w].att = FALSE]
            IN IF d.sock[w].rs # CLOSED /\ d.sock[w].rs # CLOSING
               THEN wsClose(d, w) ELSE d

\* startHeartbeat()
startHeartbeat_part002(s) ==
    IF ~hasGetHeartbeat(s) THEN s
    ELSE setTimer(clearTimer(s, "heartbeatSend"), "heartbeatSend")

\* resetHeartbeat()
resetHeartbeat_part002(s) ==
    IF ~hasGetHeartbeat(s) THEN s
    ELSE setTimer(clearTimer(s, "heartbeatCheck"), "heartbeatCheck")

\* the setInterval callback of startHeartbeat
heartbeatSendTick_part002(s) ==
    IF isConnected(s)
    THEN IF hasGetHeartbeat(s)
         THEN wsSend([s EXCEPT !.trace = Append(@, <<"getHeartbeat",
                                                     "void">>)],
                     HeartbeatData)
         ELSE [s EXCEPT !.exc = "TypeError"]
    ELSE s

\* the setTimeout callback of resetHeartbeat
heartbeatTimeout_part002(s) ==
    cleanupConnection_part002(Invoke(s, "onHeartbeatTimeout", "null"))

\* ws.onopen
onopen_part002(s) ==
    LET s1 == [s EXCEPT !.isConnecting = FALSE, !.reconnectCount = 0]
        s2 == clearTimer(s1, "reconnect")
        s3 == resetHeartbeat_part002(startHeartbeat_part002(s2))
    IN Invoke(s3, "onConnected", "null")

\* ws.onmessage
onmessage_part002(s, data) ==
    Invoke(resetHeartbeat_part002(s), "onMessage", data)

\* ws.onclose
onclose_part002(s) ==
    LET s1 == clearAllTimers([s EXCEPT !.isConnecting = FALSE])
        s2 == Invoke(s1, "onClosed", "null")
    IN IF s2.reconnectCount < s2.options.reconnectAttempts
       THEN LET s3 == [s2 EXCEPT !.reconnectCount = @ + 1]
                s4 == Invoke(s3, "onReconnecting",
                             s3.options.reconnectAttempts - s3.reconnectCount)
            IN setTimer(s4, "reconnect")
       ELSE LET s3 == Invoke(s2, "onReconnectFailed", "null")
            IN [s3 EXCEPT !.ws = Null, !.cooldown = @ + 1]

\* destroy()
destroy_part002(s) ==
    LET s1 == [s EXCEPT !.isConnecting = FALSE, !.reconnectCount = 0]
        s2 == cleanupConnection_part002(clearTimer(s1, "reconnect"))
        s3 == Invoke(s2, "onClosed", "null")
    IN [s3 EXCEPT !.ws = Null, !.callbacks = FALSE]

\* the options of this revision: no message buffer
OptionSets_part002 == {o \in OptionSets : ~o.enableMessageBuffer}

InitPart002 ==
    \E opts \in OptionSets_part002, throws \in BOOLEAN :
        InitWith(connect_part002(NewClient(opts), throws), throws)

\* the transport opens socket i
SocketOpen_part002(i) ==
    /\ sock[i].rs = CONNECTING
    /\ LET s == [Fields(NoReaction) EXCEPT !.sock[i].rs = OPEN]
       IN Commit(Dispatch(s, i, onopen_part002(s)), "open", sock[i].att)

\* the transport delivers a message on socket i
SocketMessage_part002(i, data) ==
    /\ sock[i].rs = OPEN
    /\ LET s == Fields(NoReaction)
       IN Commit(Dispatch(s, i, onmessage_part002(s, data)), "message",
                 sock[i].att)

\* the transport closes socket i
SocketClose_part002(i) ==
    /\ sock[i].rs # CLOSED
    /\ LET s == [Fields(NoReaction) EXCEPT !.sock[i].rs = CLOSED]
       IN Commit(Dispatch(s, i, onclose_part002(s)), "close", sock[i].att)

\* the reconnect timer expires: connect()
ReconnectTimer_part002(throws) ==
    /\ Scheduled("reconnect")
    /\ Len(sock) < MaxSockets
    /\ LET s == Expire(Fields(NoReaction), "reconnect", FALSE)
       IN Commit(connect_part002(s, throws), "reconnectTimer", ~throws)

\* the heartbeat-check timer expires
HeartbeatCheckTimer_part002 ==
    /\ Scheduled("heartbeatCheck")
    /\ LET s == Expire(Fields(NoReaction), "heartbeatCheck", FALSE)
       IN Commit(heartbeatTimeout_part002(s), "heartbeatCheckTimer", TRUE)

\* the heartbeat-send interval ticks
HeartbeatSendTimer_part002 ==
    /\ Len(sent) < MaxSent
    /\ Scheduled("heartbeatSend")
    /\ LET s == Expire(Fields(NoReaction), "heartbeatSend", TRUE)
       IN Commit(heartbeatSendTick_part002(s), "heartbeatSendTimer", TRUE)

\* the caller calls destroy() between events
Destroy_part002 ==
    /\ callbacks
    /\ Commit(destroy_part002(Fields(NoReaction)), "destroy", TRUE)

\* what the transport and the timers do by themselves
EventOrTimer_part002 ==
    \/ \E i \in 1..Len(sock) : SocketOpen_part002(i)
    \/ \E i \in 1..Len(sock), data \in Payloads : SocketMessage_part002(i, data)
    \/ \E i \in 1..Len(sock) : SocketClose_part002(i)
    \/ \E throws \in BOOLEAN : ReconnectTimer_part002(throws)
    \/ HeartbeatCheckTimer_part002
    \/ HeartbeatSendTimer_part002
    \/ CooldownTimer

NextPart002 ==
    \/ \E i \in 1..Len(sock) : SocketOpen_part002(i)
    \/ \E i \in 1..Len(sock), data \in Payloads : SocketMessage_part002(i, data)
    \/ \E i \in 1..Len(sock) : SocketClose_part002(i)
    \/ \E throws \in BOOLEAN : ReconnectTimer_part002(throws)
    \/ HeartbeatCheckTimer_part002
    \/ HeartbeatSendTimer_part002
    \/ CooldownTimer
    \/ Destroy_part002

Part002Spec == InitPart002 /\ [][NextPart002]_vars

\* every transport event that is due is delivered and every scheduled timer
\* expires, for as long as the caller does not intervene
FairPart002Spec == Part002Spec /\ WF_vars(EventOrTimer_part002)

\* ---------------------------------------------------------------- typing
TypeOK ==
    /\ ws \in 0..Len(sock)
    /\ Len(sock) <= MaxSockets
    /\ \A i \in 1..Len(sock) : sock[i].rs \in {CONNECTING, OPEN, CLOSING, CLOSED}
    /\ reconnectCount \in Nat
    /\ isConnecting \in BOOLEAN
    /\ \A n \in TimerNames : timers[n] \in {"null", "live", "stale"}
    /\ callbacks \in BOOLEAN
    /\ wsInstances \in [ChannelIds -> {"none", "this", "other"}]

\* ------------------------------------------------------ shared predicates
\* a destroy() called between events has returned
destroyed == destroys > 0

\* the connection is open (isConnected() of the current state)
Connected == ws # Null /\ sock[ws].rs = OPEN

\* how often callback `name` occurs in a sequence of invocations
Count(seq, name) == Cardinality({k \in DOMAIN seq : seq[k][1] = name})

ClientFields ==
    <<ws, sock, reconnectCount, isConnecting, messageQueue, timers, leaked,
      cooldown, callbacks, sent>>

\* --------------------------------------------------------------------- C1
\* C1: once a destroy() called between events has returned, no step invokes
\* a caller callback and no step creates a socket, whatever transport event,
\* timer expiry or call follows.
C1_DestroyTerminal ==
    [][destroyed => (trace' = <<>> /\ Len(sock') = Len(sock))]_vars

\* a transport close and a cooldown expiry have been seen after destroy()
C1_Witness ==
    /\ destroyed
    /\ last.op \in {"close", "cooldownTimer"}
    /\ Len(sock) >= 2

\* --------------------------------------------------------------------- C2
\* C2: when a callback of the client has called destroy() from its body, the
\* call returns (no RangeError) and, once the enclosing handler has finished,
\* no heartbeat or reconnect timer of the client is scheduled (so that no
\* connection is created afterwards).
C2_DestroyInCallback ==
    last.reacted # "none" =>
        /\ last.exc = "none"
        /\ \A n \in TimerNames : timers[n] # "live" /\ leaked[n] = 0

\* --------------------------------------------------------------------- C3
\* C3: the first destroy() on a client invokes onClosed exactly once; a
\* destroy() that directly follows a returned destroy() invokes no callback,
\* raises nothing and leaves every field of the client as it was.
C3_DestroyTwice ==
    [][/\ (last'.op = "destroy" /\ callbacks /\ last'.reacted = "none")
            => (trace' = << <<"onClosed", "null">> >> /\ last'.exc = "none")
       /\ (last'.op = "destroy" /\ last.op = "destroy")
            => /\ trace' = <<>>
               /\ last'.exc = "none"
               /\ ClientFields' = ClientFields]_vars

\* two destroy() calls have returned, the second right after the first
C3_Witness ==
    /\ destroys = 2
    /\ last.op = "destroy"
    /\ trace = <<>>

\* --------------------------------------------------------------------- C4
\* the argument onReconnecting receives after a failure at counter value c
Remaining(c) == options.reconnectAttempts - (c + 1)

\* C4: with reconnectAttempts > 0 and callbacks that do not call destroy(),
\* an expiry of the heartbeat-check timer invokes onHeartbeatTimeout once,
\* then onClosed once, then onReconnecting, leaves exactly one reconnect
\* timer scheduled and the forcibly closed connection without handlers; the
\* transport's close event of a connection without handlers invokes nothing
\* and changes no field of the client but that socket's readyState.
C4_HeartbeatTimeout ==
    [][/\ (/\ last'.op = "heartbeatCheckTimer"
           /\ last'.reacted = "none"
           /\ options.reconnectAttempts > 0)
            => /\ trace' = << <<"onHeartbeatTimeout", "null">>,
                              <<"onClosed", "null">>,
                              <<"onReconnecting", Remaining(reconnectCount)>> >>
               /\ timers'["reconnect"] = "live"
               /\ leaked'["reconnect"] = 0
               /\ timers'["heartbeatCheck"] = "null"
               /\ timers'["heartbeatSend"] = "null"
               /\ ws' = ws /\ ws # Null
               /\ ~sock'[ws].att
               /\ sock'[ws].rs = CLOSING
       /\ (last'.op = "close" /\ ~last'.handled)
            => /\ trace' = <<>>
               /\ <<ws, reconnectCount, isConnecting, messageQueue, timers,
                    leaked, cooldown, callbacks, sent>>' =
                  <<ws, reconnectCount, isConnecting, messageQueue, timers,
                    leaked, cooldown, callbacks, sent>>]_vars

\* the transport has delivered the close event of a connection that a
\* heartbeat timeout had closed; the reconnect timer is still scheduled
C4_Witness ==
    /\ last.op = "close" /\ ~last.handled
    /\ callbacks
    /\ cbLog = << <<"onHeartbeatTimeout", "null">>, <<"onClosed", "null">>,
                  <<"onReconnecting", options.reconnectAttempts - 1>> >>
    /\ timers["reconnect"] = "live"
    /\ ws # Null /\ sock[ws].rs = CLOSED

\* --------------------------------------------------------------------- C5
\* The transport has closed every connection the client made
\* (reconnectAttempts + 1 sockets), the last close has exhausted the budget,
\* and no destroy() has been called.
ClosedUntilExhausted ==
    /\ callbacks /\ last.exc = "none"
    /\ Len(sock) = options.reconnectAttempts + 1
    /\ \A i \in 1..Len(sock) : sock[i].rs = CLOSED
    /\ ws = Null
    /\ cooldown > 0
    /\ cbLog # <<>>
    /\ cbLog[1] = <<"onClosed", "null">>

\* C5 as stated: with reconnectAttempts = 2 the callbacks of a run in which
\* the transport closes every attempt are onClosed, onReconnecting(1),
\* onClosed, onReconnecting(0), ..., onReconnectFailed.
C5_ClosedEveryTime ==
    (ClosedUntilExhausted /\ options.reconnectAttempts = 2) =>
        /\ Len(cbLog) >= 5
        /\ SubSeq(cbLog, 1, 4) = << <<"onClosed", "null">>,
                                    <<"onReconnecting", 1>>,
                                    <<"onClosed", "null">>,
                                    <<"onReconnecting", 0>> >>
        /\ cbLog[Len(cbLog)] = <<"onReconnectFailed", "null">>

\* C5 amended: onClosed is invoked for the first close of a failure episode
\* only (the one handled with reconnectCount = 0): the callbacks up to
\* exhaustion are onClosed, onReconnecting(reconnectAttempts - 1), ...,
\* onReconnecting(0), onReconnectFailed; with reconnectAttempts = 2:
\* onClosed, onReconnecting(1), onReconnecting(0), onReconnectFailed.
C5_ClosedOncePerEpisode ==
    ClosedUntilExhausted =>
        cbLog = << <<"onClosed", "null">> >>
                \o [k \in 1..options.reconnectAttempts |->
                       <<"onReconnecting", options.reconnectAttempts - k>>]
                \o << <<"onReconnectFailed", "null">> >>

\* reconnectAttempts = 2, three sockets, each closed by the transport
C5_Witness ==
    /\ ClosedUntilExhausted
    /\ options.reconnectAttempts = 2
    /\ cbLog = << <<"onClosed", "null">>, <<"onReconnecting", 1>>,
                  <<"onReconnecting", 0>>, <<"onReconnectFailed", "null">> >>

\* --------------------------------------------------------------------- C6
\* the step handles a connection failure: a handled transport close, a
\* heartbeat timeout, or a connect() whose transport constructor throws
FailureStep ==
    \/ last'.op = "close" /\ last'.handled
    \/ last'.op = "heartbeatCheckTimer"
    \/ last'.op = "reconnectTimer" /\ ~last'.handled

\* C6: a failure handled with reconnectCount < reconnectAttempts increments
\* the counter, invokes onReconnecting last, with reconnectAttempts minus the
\* new counter, and leaves one reconnect timer scheduled; a failure handled
\* with reconnectCount = reconnectAttempts invokes onReconnectFailed exactly
\* once, clears the connection reference, keeps the counter and schedules no
\* reconnect timer.  (Callbacks present and not calling destroy().)
C6_ReconnectBudget ==
    [][(FailureStep /\ callbacks /\ last'.reacted = "none") =>
          /\ reconnectCount <= options.reconnectAttempts
          /\ reconnectCount < options.reconnectAttempts =>
                /\ reconnectCount' = reconnectCount + 1
                /\ trace'[Len(trace')] =
                      <<"onReconnecting",
                        options.reconnectAttempts - reconnectCount'>>
                /\ Count(trace', "onReconnecting") = 1
                /\ Count(trace', "onReconnectFailed") = 0
                /\ timers'["reconnect"] = "live"
                /\ leaked'["reconnect"] = 0
                /\ cooldown' = cooldown
          /\ reconnectCount = options.reconnectAttempts =>
                /\ reconnectCount' = reconnectCount
                /\ trace'[Len(trace')] = <<"onReconnectFailed", "null">>
                /\ Count(trace', "onReconnectFailed") = 1
                /\ Count(trace', "onReconnecting") = 0
                /\ ws' = Null
                /\ timers'["reconnect"] = "null"
                /\ leaked'["reconnect"] = 0]_vars

\* the budget of 2 has been used up: onReconnecting(1), onReconnecting(0),
\* then onReconnectFailed on the failure handled with reconnectCount = 2
C6_Witness ==
    /\ callbacks
    /\ options.reconnectAttempts = 2
    /\ reconnectCount = 2
    /\ ws = Null
    /\ Count(cbLog, "onReconnecting") = 2
    /\ trace = << <<"onReconnectFailed", "null">> >>

\* --------------------------------------------------------------------- C7
\* the budget is exhausted (no connection, no reconnect timer) and the
\* client has not been destroyed
Exhausted ==
    /\ callbacks /\ last.exc = "none"
    /\ ws = Null
    /\ timers["reconnect"] = "null"

\* ... and the cooldown has expired and reset the counter
ExhaustedAndCooledDown == Exhausted /\ cooldown = 0 /\ reconnectCount = 0

\* C7: an exhausted client whose cooldown has expired makes a new connection
\* attempt (isConnecting) unless destroy() is called first.
C7_Recoverable ==
    ExhaustedAndCooledDown ~>
        (isConnecting \/ ~callbacks \/ last.op = "destroy")

\* what the code does instead: from exhaustion on, no step of a client that
\* holds its callback set creates a socket or schedules a reconnect timer
C7_Stuck ==
    [][Exhausted =>
          (Len(sock') = Len(sock) /\ timers'["reconnect"] = "null"
           /\ ~isConnecting')]_vars

\* --------------------------------------------------------------------- C8
\* C8: while a cooldown timer of the exhausted branch is pending the counter
\* equals reconnectAttempts, and the step in which the cooldown timer
\* expires sets it to 0.
C8_CooldownReset ==
    /\ [](cooldown > 0 => reconnectCount = options.reconnectAttempts)
    /\ [][cooldown' < cooldown => reconnectCount' = 0]_vars

\* the cooldown of an exhausted client with reconnectAttempts = 2 has expired
C8_Witness ==
    /\ options.reconnectAttempts = 2
    /\ last.op = "cooldownTimer"
    /\ cooldown = 0
    /\ reconnectCount = 0
    /\ ws = Null

\* --------------------------------------------------------------------- C9
\* C9: in the state right after the open event of the current connection has
\* been handled, reconnectCount = 0 and isConnecting = FALSE.
C9_OpenResets ==
    (last.op = "open" /\ last.handled) =>
        (reconnectCount = 0 /\ ~isConnecting)

\* the third connection opened after two connections had failed
C9_Witness ==
    /\ last.op = "open" /\ last.handled
    /\ Len(sock) = 3
    /\ sock[1].rs = CLOSED /\ sock[2].rs = CLOSED
    /\ options.reconnectAttempts = 2
    /\ Connected

\* -------------------------------------------------------------------- C10
\* C10: a send() on a client that holds its callback set and whose
\* connection is not open returns false, writes nothing to the transport and
\* invokes onSendError exactly once, first, with the connection's readyState,
\* or -1 when this.ws is null.
C10_SendWhileClosed ==
    [][(last'.op = "send" /\ ~Connected /\ callbacks) =>
          /\ last'.ret = "false"
          /\ last'.exc = "none"
          /\ sent' = sent
          /\ Count(trace', "onSendError") = 1
          /\ trace'[1] = <<"onSendError",
                           IF ws = Null THEN NoConnection ELSE sock[ws].rs>>]_vars

\* send() was refused on a client that holds no connection (exhausted)
C10_Witness ==
    /\ last.op = "send" /\ last.ret = "false"
    /\ trace = << <<"onSendError", NoConnection>> >>
    /\ callbacks
    /\ sent = <<>>

\* -------------------------------------------------------------------- C11
\* C11: with enableMessageBuffer the step that handles the open event of the
\* current connection writes every queued payload to the transport, once
\* each and in the order of the send() calls, and leaves the queue empty,
\* however many failed attempts lie between the sends and the open.
C11_FlushInOrder ==
    [][(last'.op = "open" /\ last'.handled /\ options.enableMessageBuffer
        /\ last'.exc = "none") =>
          (sent' = sent \o messageQueue /\ messageQueue' = <<>>)]_vars

\* -------------------------------------------------------------------- C12
\* C12: a send() on an open connection never ends in an exception, and when
\* the transport did not take the payload the failure is reported through
\* onSendError.
C12_SendNeverThrows ==
    [][(last'.op = "send" /\ Connected) =>
          /\ last'.exc = "none"
          /\ sent' = sent => Count(trace', "onSendError") = 1]_vars

\* -------------------------------------------------------------------- C13
\* the client has been replaced in the registry by a later createWebSocket
Replaced == \E id \in ChannelIds : wsInstances[id] = "other"

\* the client holds a connection that is not closed, or a scheduled
\* heartbeat or reconnect timer
Live ==
    \/ ws # Null /\ sock[ws].rs # CLOSED
    \/ \E n \in TimerNames : Scheduled(n)

\* C13: once createWebSocket has registered another client under the id, the
\* replaced client is not live (so the id has one live client at most) and
\* no step of it creates a socket.
C13_OneLiveClient ==
    /\ [](Replaced => ~Live)
    /\ [][Replaced => Len(sock') = Len(sock)]_vars

\* -------------------------------------------------------------------- C14
NoneRegistered == \A id \in ChannelIds : wsInstances[id] = "none"

\* the client is the one registered under its id
Registered == \E id \in ChannelIds : wsInstances[id] = "this"

\* C14: while no client is registered, removeWebSocket changes nothing,
\* sendWebSocketMessage returns false and getWebSocketInstance returns null,
\* none of them invoking a callback; removeWebSocket on the id of the client
\* destroys the client and deletes the entry (so that the next
\* removeWebSocket is one of the first kind).
C14_RegistryHarmless ==
    /\ [][(NoneRegistered /\ last'.op = "removeWebSocket") =>
             /\ UNCHANGED <<ClientFields, wsInstances>>
             /\ trace' = <<>> /\ last'.exc = "none"]_vars
    /\ [][(NoneRegistered /\ last'.op = "sendWebSocketMessage") =>
             /\ UNCHANGED <<ClientFields, wsInstances>>
             /\ trace' = <<>> /\ last'.exc = "none" /\ last'.ret = "false"]_vars
    /\ [][(NoneRegistered /\ last'.op = "getWebSocketInstance") =>
             /\ UNCHANGED <<ClientFields, wsInstances>>
             /\ trace' = <<>> /\ last'.exc = "none" /\ last'.ret = "null"]_vars
    /\ [][(Registered /\ last'.op = "removeWebSocket"
           /\ last'.exc = "none") =>
             /\ NoneRegistered'
             /\ ~callbacks' /\ ws' = Null
             /\ \A n \in TimerNames : timers'[n] = "null"]_vars

\* sendWebSocketMessage was refused on the id of a client that had an open
\* connection when removeWebSocket destroyed it
C14_Witness ==
    /\ NoneRegistered
    /\ last.op = "sendWebSocketMessage" /\ last.ret = "false"
    /\ trace = <<>>
    /\ ~callbacks /\ ws = Null
    /\ Len(sock) = 1 /\ sock[1].rs = CLOSING
    /\ messageQueue = <<>>

\* -------------------------------------------------------------------- C15
\* C15: the constructor's options have heartbeatTimeout = the merged
\* heartbeatTimeout + 3000 when the merged heartbeatInterval and
\* heartbeatTimeout are equal, and the merged values otherwise; either way
\* heartbeatTimeout differs from heartbeatInterval afterwards.
C15_HeartbeatWiden ==
    /\ last.op = "merged" =>
           LET m == mergeDefaults(last.given)
           IN /\ options.heartbeatInterval = m.heartbeatInterval
              /\ options.heartbeatTimeout =
                     IF m.heartbeatInterval = m.heartbeatTimeout
                     THEN m.heartbeatTimeout + 3000
                     ELSE m.heartbeatTimeout
    /\ last.op # "options" =>
           options.heartbeatTimeout # options.heartbeatInterval

\* 1000/1000 has become 1000/4000
C15_Witness ==
    /\ last.op = "merged"
    /\ {"heartbeatInterval", "heartbeatTimeout"} \subseteq DOMAIN last.given
    /\ last.given.heartbeatInterval = 1000
    /\ last.given.heartbeatTimeout = 1000
    /\ options.heartbeatInterval = 1000
    /\ options.heartbeatTimeout = 4000

\* -------------------------------------------------------------------- C16
\* C16: the delay computed for attempt n = reconnectCount, 1 <= n <=
\* reconnectAttempts, has the deterministic part min(reconnectInterval *
\* 1.5^(n-1), 30000); this part is at most 30000, the total delay is not
\* below it, and from one attempt to the next it does not decrease.
C16_Backoff ==
    /\ [](last.op = "delay" =>
            LET n == reconnectCount
                raw == Frac(options.reconnectInterval * Pow(3, n - 1),
                            Pow(2, n - 1))
                cap == Frac(30000, 1)
                b == last.backoffDelay
            IN /\ n \in 1..options.reconnectAttempts
               /\ Leq(b, raw) /\ Leq(b, cap)
               /\ Eq(b, raw) \/ Eq(b, cap)
               /\ Leq(b, last.totalDelay))
    /\ [][(last.op = "delay" /\ last'.op = "delay") =>
             Leq(last.backoffDelay, last'.backoffDelay)]_vars

\* the third delay of reconnectInterval = 20000 is capped at 30000 and has
\* the largest jitter of randomTime = 1 on top
C16_Witness ==
    /\ last.op = "delay"
    /\ reconnectCount = 3
    /\ options.reconnectInterval = 20000
    /\ options.randomTime = 1
    /\ last.backoffDelay = Frac(30000, 1)
    /\ last.totalDelay = Frac(30999, 1)

\* -------------------------------------------------------------------- C17
\* the sockets that have the client's handlers attached
Attached == {i \in 1..Len(sock) : sock[i].att}

\* C17: at most one socket has the client's handlers attached; a step that
\* creates a socket leaves every earlier socket detached and closing or
\* closed and makes the new socket the current, attached one; connect()
\* called in a state with isConnecting set returns with every field as it
\* was.
C17_OneConnection ==
    /\ [](Cardinality(Attached) <= 1)
    /\ [](isConnecting =>
            \A throws \in BOOLEAN :
                connect(Fields(NoReaction), throws) = Fields(NoReaction))
    /\ [][Len(sock') > Len(sock) =>
             /\ \A i \in 1..Len(sock) :
                    ~sock'[i].att /\ sock'[i].rs \in {CLOSING, CLOSED}
             /\ ws' = Len(sock') /\ Attached' = {ws'}]_vars

\* socket 2 was created while socket 1, torn down by the heartbeat timeout,
\* was still closing
C17_Witness ==
    /\ last.op = "reconnectTimer" /\ last.handled
    /\ Len(sock) = 2 /\ ws = 2
    /\ sock[1].rs = CLOSING /\ ~sock[1].att
    /\ sock[2].rs = CONNECTING /\ sock[2].att

\* -------------------------------------------------------------------- C18
\* C18: a socket that can still deliver events and has the client's handlers
\* attached is the current one; a socket that connect() replaced, or that a
\* heartbeat timeout or destroy() tore down, has none and never gets them
\* back; and an event that finds no handler invokes no callback and changes
\* no field of the client.
C18_NoStaleEvents ==
    /\ [](\A i \in 1..Len(sock) :
            (sock[i].att /\ sock[i].rs # CLOSED) => i = ws)
    /\ [][\A i \in 1..Len(sock) : ~sock[i].att => ~sock'[i].att]_vars
    /\ [][(last'.op \in {"heartbeatCheckTimer", "destroy"}
           /\ last'.exc = "none" /\ ws # Null) => ~sock'[ws].att]_vars
    /\ [][(last'.op \in {"open", "message", "close", "error"}
           /\ ~last'.handled) =>
             /\ trace' = <<>>
             /\ UNCHANGED <<ws, reconnectCount, isConnecting, messageQueue,
                            timers, leaked, cooldown, callbacks, sent>>]_vars

\* the close event of the connection that a heartbeat timeout tore down
\* arrived after the reconnect had opened the next connection
C18_Witness ==
    /\ last.op = "close" /\ ~last.handled
    /\ trace = <<>>
    /\ callbacks
    /\ Len(sock) = 2 /\ ws = 2
    /\ sock[1].rs = CLOSED /\ ~sock[1].att
    /\ sock[2].rs = OPEN /\ sock[2].att

\* -------------------------------------------------------------------- C19
\* the current connection has its handlers attached and its heartbeat-check
\* timer is scheduled: both its close event and the expiry can come next
BothPending ==
    /\ ws # Null /\ sock[ws].att /\ sock[ws].rs # CLOSED
    /\ timers["heartbeatCheck"] = "live"

\* C19: whichever of the close event and the heartbeat-check expiry of a
\* connection is handled first (by callbacks that do not call destroy()),
\* that step invokes onClosed once and takes one reconnect decision (one
\* reconnect timer and onReconnecting, or onReconnectFailed), and it leaves
\* the other trigger unable to reach the client: no heartbeat-check timer
\* scheduled, and the socket closed or without handlers.
C19_OneFailure ==
    [][(/\ BothPending /\ callbacks
        /\ last'.op \in {"close", "heartbeatCheckTimer"} /\ last'.handled
        /\ last'.reacted = "none") =>
          /\ Count(trace', "onClosed") = 1
          /\ Count(trace', "onReconnecting")
               + Count(trace', "onReconnectFailed") = 1
          /\ Count(trace', "onReconnecting") = 1 <=>
                 timers'["reconnect"] = "live"
          /\ leaked'["reconnect"] = 0
          /\ ~Scheduled("heartbeatCheck")'
          /\ ~sock'[ws].att \/ sock'[ws].rs = CLOSED]_vars

\* with reconnectAttempts = 0 the heartbeat check expired first; the close
\* event of the connection came afterwards and reached no handler
C19_Witness ==
    /\ last.op = "close" /\ ~last.handled
    /\ callbacks
    /\ options.reconnectAttempts = 0
    /\ cbLog = << <<"onHeartbeatTimeout", "null">>, <<"onClosed", "null">>,
                  <<"onReconnectFailed", "null">> >>
    /\ Len(sock) = 1 /\ sock[1].rs = CLOSED
    /\ timers["reconnect"] = "null"

\* -------------------------------------------------------------------- C20
\* C20: while a reconnect timer is scheduled isConnecting is FALSE; the
\* step in which it expires creates a socket, which becomes the current,
\* connecting one, or, when the transport's constructor throws, handles the
\* failure (next reconnect timer, or exhaustion).
C20_ReconnectNeverDropped ==
    /\ [](Scheduled("reconnect") => ~isConnecting)
    /\ [][(last'.op = "reconnectTimer" /\ last'.handled) =>
             /\ Len(sock') = Len(sock) + 1
             /\ ws' = Len(sock')
             /\ sock'[ws'].rs = CONNECTING /\ sock'[ws'].att
             /\ isConnecting']_vars
    /\ [][(last'.op = "reconnectTimer" /\ ~last'.handled) =>
             \/ reconnectCount' = reconnectCount + 1
                  /\ timers'["reconnect"] = "live"
             \/ cooldown' = cooldown + 1]_vars

\* the second reconnect timer of a failure episode has expired and created
\* the third socket
C20_Witness ==
    /\ last.op = "reconnectTimer" /\ last.handled
    /\ Len(sock) = 3 /\ ws = 3
    /\ sock[1].rs = CLOSED /\ sock[2].rs = CLOSED
    /\ reconnectCount = 2
    /\ isConnecting

\* -------------------------------------------------------------------- C21
\* C21: an error event that reaches the client's handler (whose onError does
\* not call destroy()) invokes onError with the error and nothing else, and
\* changes no field of the client: counter, connecting flag, connection,
\* queue, timers and sockets stay as they are.
C21_ErrorOnlyForwards ==
    [][(last'.op = "error" /\ last'.handled /\ last'.reacted = "none") =>
          /\ trace' = IF callbacks THEN << <<"onError", "error">> >> ELSE <<>>
          /\ last'.exc = "none"
          /\ UNCHANGED ClientFields]_vars

\* an error event was handled on an open connection with both heartbeat
\* timers scheduled
C21_Witness ==
    /\ last.op = "error" /\ last.handled
    /\ trace = << <<"onError", "error">> >>
    /\ Connected
    /\ timers["heartbeatSend"] = "live" /\ timers["heartbeatCheck"] = "live"
    /\ timers["reconnect"] = "null"

\* -------------------------------------------------------------------- C22
\* the open event of the current connection is handled in this step
OpenStep == last'.op = "open" /\ last'.handled

SendTick == last'.op = "heartbeatSendTimer"

\* C23: a heartbeat payload is written only by a send-timer tick that finds
\* the connection open; a tick that finds it not open writes nothing and
\* does not call the producer; and a client constructed without getHeartbeat
\* has no heartbeat-send or heartbeat-check timer scheduled in any state and
\* no step of it invokes onHeartbeatTimeout.
C23_HeartbeatOnlyWhenOpen ==
    /\ [][(SendTick /\ ~Connected) => (sent' = sent /\ trace' = <<>>)]_vars
    /\ [][(SendTick /\ sent' # sent) =>
             (Connected /\ sent' = Append(sent, HeartbeatData))]_vars
    /\ [](~options.getHeartbeat =>
             /\ ~Scheduled("heartbeatSend")
             /\ ~Scheduled("heartbeatCheck")
             /\ timers["heartbeatSend"] = "null"
             /\ timers["heartbeatCheck"] = "null")
    /\ [][~options.getHeartbeat =>
             Count(trace', "onHeartbeatTimeout") = 0]_vars

\* the send timer ticked while the connection was in its closing handshake:
\* nothing was written and the producer was not asked
C23_Witness ==
    /\ last.op = "heartbeatSendTimer"
    /\ last.exc = "none"
    /\ options.getHeartbeat /\ callbacks
    /\ ws # Null /\ sock[ws].rs = CLOSING /\ sock[ws].att
    /\ timers["heartbeatSend"] = "live"
    /\ trace = <<>>
    /\ sent = <<>>

\* -------------------------------------------------------------------- C24
\* the heartbeat-check timer that the handle refers to after the step was
\* started in the step, and the one it referred to before was cancelled
CheckRearmed ==
    /\ "heartbeatCheck" \in last'.armed
    /\ timers'["heartbeatCheck"] = "live"
    /\ leaked'["heartbeatCheck"] = leaked["heartbeatCheck"]

\* an inbound message of the current connection is handled in this step by
\* a client with a producer, without a call from the callback's body
MessageStep ==
    /\ last'.op = "message" /\ last'.handled /\ last'.reacted = "none"
    /\ callbacks /\ options.getHeartbeat

\* C24 as stated: the heartbeat-check timer is started anew by every inbound
\* message and by every heartbeat payload written to the transport.
C24_RearmedBySendToo ==
    /\ [][MessageStep => CheckRearmed]_vars
    /\ [][(SendTick /\ sent' # sent) => CheckRearmed]_vars

\* C24: the heartbeat-check timer is started anew by every inbound message;
\* a tick of the heartbeat-send timer, whether it writes a payload or not,
\* starts no timer and leaves the heartbeat-check timer as it was.
C24_RearmedByMessageOnly ==
    /\ [][MessageStep => CheckRearmed]_vars
    /\ [][SendTick =>
             /\ last'.armed = {}
             /\ timers' = timers
             /\ leaked'["heartbeatCheck"] = leaked["heartbeatCheck"]]_vars

\* a heartbeat payload was written and the check timer that was pending
\* before is still the pending one
C24_Witness ==
    /\ last.op = "heartbeatSendTimer"
    /\ last.exc = "none"
    /\ sent = <<HeartbeatData>>
    /\ trace = << <<"getHeartbeat", "void">> >>
    /\ last.armed = {}
    /\ timers["heartbeatCheck"] = "live"

\* -------------------------------------------------------------------- C25
\* C25: an inbound message of the current connection, handled without a call
\* from the callback's body, cancels the pending heartbeat-check timer and
\* starts a fresh one when a producer is supplied (and touches no timer
\* otherwise), invokes onMessage exactly once with the payload as received
\* and nothing else, and changes neither reconnectCount, isConnecting, the
\* connection reference, the sockets, the queue nor the reconnect timer.
C25_MessageEffect ==
    /\ [][(last'.op = "message" /\ last'.handled /\ last'.reacted = "none") =>
             /\ last'.exc = "none"
             /\ IF callbacks /\ options.getHeartbeat
                THEN CheckRearmed /\ last'.armed = {"heartbeatCheck"}
                ELSE last'.armed = {} /\ timers' = timers
             /\ IF callbacks
                THEN \E data \in Payloads :
                         trace' = << <<"onMessage", data>> >>
                ELSE trace' = <<>>
             /\ timers'["reconnect"] = timers["reconnect"]
             /\ timers'["heartbeatSend"] = timers["heartbeatSend"]
             /\ leaked' = leaked
             /\ UNCHANGED <<ws, sock, reconnectCount, isConnecting,
                            messageQueue, cooldown, callbacks, sent>>]_vars
    /\ [](callbacks =>
             \A data \in Payloads :
                 onmessage(Fields(NoReaction), data).trace
                     = << <<"onMessage", data>> >>)

\* a message arrived on a connection that a reconnect timer had created:
\* the check timer was restarted, onMessage got the payload and no
\* reconnect timer has appeared
C25_Witness ==
    /\ last.op = "message" /\ last.handled /\ last.reacted = "none"
    /\ trace = << <<"onMessage", "a">> >>
    /\ last.armed = {"heartbeatCheck"}
    /\ timers["heartbeatCheck"] = "live"
    /\ timers["reconnect"] = "null" /\ leaked["reconnect"] = 0
    /\ Connected /\ ws = 2
    /\ reconnectCount = 0 /\ ~isConnecting

\* -------------------------------------------------------------------- C26
\* C26: in every reachable state no timer of a role (heartbeat-send,
\* heartbeat-check, reconnect) is scheduled apart from the one that the
\* role's handle refers to, and no step overwrites the handle of a timer that
\* is still scheduled.
C26_CancelBeforeArm ==
    /\ [](\A n \in TimerNames : leaked[n] = 0)
    /\ [][\A n \in TimerNames : leaked'[n] <= leaked[n]]_vars

\* an inbound message restarted the heartbeat-check timer while the one
\* started before was pending: only the new one is scheduled
C26_Witness ==
    /\ last.op = "message" /\ last.handled
    /\ "heartbeatCheck" \in last.armed
    /\ sent = <<HeartbeatData>>
    /\ \A n \in TimerNames : leaked[n] = 0
    /\ timers["heartbeatCheck"] = "live" /\ timers["heartbeatSend"] = "live"

\* -------------------------------------------------------------------- C27
\* a timer of one of the heartbeat roles is scheduled
HeartbeatScheduled ==
    Scheduled("heartbeatSend") \/ Scheduled("heartbeatCheck")

\* C27: while a heartbeat-send or heartbeat-check timer is scheduled, the
\* connection that was open when it was started is still the current one,
\* has the client's handlers and has not delivered its close event, and the
\* client has not been destroyed; while a reconnect timer is scheduled, no
\* connection attempt is in progress and no connection is open.
C27_NoStaleTimers ==
    /\ [](HeartbeatScheduled =>
             /\ callbacks
             /\ ws # Null
             /\ sock[ws].att
             /\ sock[ws].rs \in {OPEN, CLOSING})
    /\ [](Scheduled("reconnect") => (~isConnecting /\ ~Connected))

\* the connection of a client with a producer was open, then closed: its
\* heartbeat timers are gone and the reconnect timer waits with no
\* connection open or being opened
C27_Witness ==
    /\ last.op = "close" /\ last.handled /\ last.exc = "none"
    /\ options.getHeartbeat /\ callbacks
    /\ sent = <<HeartbeatData>>
    /\ ~HeartbeatScheduled
    /\ timers["reconnect"] = "live"
    /\ ws # Null /\ sock[ws].rs = CLOSED
    /\ ~isConnecting

\* -------------------------------------------------------------------- C28
\* C28: when a destroy() called between events has returned, no timer that
\* the client started is scheduled, the 30 s timer of the exhausted branch
\* included; the connection it had is detached and closing or closed; and
\* the callback set is the empty one.
C28_DestroyCancelsAll ==
    [][(last'.op = "destroy" /\ last'.exc = "none"
        /\ last'.reacted = "none") =>
          /\ \A n \in TimerNames : timers'[n] # "live" /\ leaked'[n] = 0
          /\ cooldown' = 0
          /\ ws # Null =>
                (~sock'[ws].att /\ sock'[ws].rs \in {CLOSING, CLOSED})
          /\ ws' = Null
          /\ ~callbacks']_vars

\* -------------------------------------------------------------------- C29
\* C29: a connect() in which the transport constructor throws has the effect
\* of a close event handled in the same state: the same callbacks in the
\* same order (onClosed first when the counter is 0), the same counter, the
\* same timers, and isConnecting false.  Stated for the constructor's
\* connect(), where the counter is 0, and for the connect() of a reconnect
\* timer.
C29_FailureLikeClose ==
    /\ []((last.op = "new" /\ ~last.handled /\ last.reacted = "none") =>
             /\ Len(trace) >= 1
             /\ trace[1] = <<"onClosed", "null">>
             /\ ~isConnecting)
    /\ [][(last'.op = "reconnectTimer" /\ ~last'.handled
           /\ last'.reacted = "none") =>
             LET s == Expire(Fields(NoReaction), "reconnect", FALSE)
                 c == onclose(s)
             IN /\ trace' = c.trace
                /\ reconnectCount' = c.reconnectCount
                /\ timers' = c.timers
                /\ cooldown' = c.cooldown
                /\ ~isConnecting']_vars

\* -------------------------------------------------------------------- C30
\* the heartbeat-check timer of the part_002 client has expired, with
\* reconnect budget left and room for another connection
TimedOut_part002 ==
    /\ last.op = "heartbeatCheckTimer"
    /\ reconnectCount < options.reconnectAttempts
    /\ Len(sock) < MaxSockets

\* C30: in the part_002 revision, the step in which the heartbeat-check
\* timer expires invokes onClosed and, with reconnect budget left, leaves a
\* reconnect timer scheduled; and after such an expiry a new connection
\* attempt is eventually made (unless the caller destroys the client).
C30_TimeoutReconnects ==
    /\ [][(last'.op = "heartbeatCheckTimer") =>
             /\ Count(trace', "onClosed") = 1
             /\ (reconnectCount < options.reconnectAttempts =>
                    timers'["reconnect"] = "live")]_vars
    /\ (TimedOut_part002 ~> (last.op = "reconnectTimer" \/ destroyed))

\* -------------------------------------------------------------------- C31
\* C31: in every reachable state reconnectCount is between 0 and
\* reconnectAttempts; since the last handled open event (or since the
\* construction) the client has created at most reconnectAttempts + 1
\* sockets, and the caller's callbacks have received onReconnectFailed at most
\* once.
C31_CountBounded ==
    /\ [](0 <= reconnectCount /\ reconnectCount <= options.reconnectAttempts)
    /\ [](created <= options.reconnectAttempts + 1)
    /\ [](Count(cbLog, "onReconnectFailed") <= 1)

\* a client with one reconnect attempt has used it up: two sockets since the
\* construction, the counter at its limit and onReconnectFailed received once
C31_Witness ==
    /\ options.reconnectAttempts = 1
    /\ reconnectCount = 1
    /\ created = 2
    /\ Count(cbLog, "onReconnectFailed") = 1
    /\ last.op = "close" /\ last.handled
    /\ ws = Null
    /\ cooldown = 1

\* -------------------------------------------------------------------- C32
\* C32: with enableMessageBuffer false the message queue is empty in every
\* reachable state; a send() while the connection is not open, whose
\* onSendError makes no call back into the client, returns false, reports
\* onSendError once when the caller's callbacks are set, and changes no field
\* of the client; and a handled open event writes nothing to the transport.
C32_NoBufferNoQueue ==
    /\ [](~options.enableMessageBuffer => messageQueue = <<>>)
    /\ [][(~options.enableMessageBuffer /\ last'.op = "send" /\ ~Connected
           /\ last'.reacted = "none") =>
             /\ UNCHANGED ClientFields
             /\ last'.ret = "false"
             /\ last'.exc = "none"
             /\ IF callbacks
                THEN Len(trace') = 1 /\ trace'[1][1] = "onSendError"
                ELSE trace' = <<>>]_vars
    /\ [][(~options.enableMessageBuffer /\ OpenStep) => sent' = sent]_vars

\* a payload was passed to send() while the first connection was still
\* connecting, without buffering: it is nowhere
C32_Witness ==
    /\ ~options.enableMessageBuffer
    /\ last.op = "send" /\ last.ret = "false"
    /\ trace = << <<"onSendError", CONNECTING>> >>
    /\ ws = 1 /\ sock[1].rs = CONNECTING
    /\ messageQueue = <<>>
    /\ sent = <<>>
====
